---- MODULE Spec2Model ----
(***************************************************************************)
(* A model of the JS runtime bridge of weex:                               *)
(*   src/html5/runtime/index.js    the instance registry (instanceMap) and *)
(*                                 the host entry points                   *)
(*   src/html5/default/app/ctrl.js the per-app controls: init, refresh,    *)
(*                                 destroy, fireEvent, callback,           *)
(*                                 updateActions, callTasks, normalize     *)
(* Spec      drives the host entry points of runtime/index.js.             *)
(* SpecApp   drives callTasks, updateActions, callback, fireEvent and      *)
(*           destroy of ctrl.js on one app.                                *)
(* SpecEvent drives init, refresh, fireEvent and destroy on one app.       *)
(* SpecPhase drives init, refresh, fireEvent, callTasks, callback and      *)
(*           destroy on one app.                                           *)
(***************************************************************************)
EXTENDS Integers, Sequences, FiniteSets, TLC

VARIABLES
  instanceMap,  \* runtime/index.js:51  id -> entry
  destroyed,    \* history: the ids destroyInstance has been called with
  prev,         \* history: the entry-point call before the last one
  last,         \* history: the last call, its result and its effects
  app,          \* ctrl.js: the app object the controls work on
  handed,       \* history: <<key, function>> for every id normalize handed out
  spent         \* history: the keys whose function a callback() with keepAlive
                \* absent or false has run

vars == <<instanceMap, destroyed, prev, last, app, handed, spent>>

rtVars == <<instanceMap, destroyed, prev>>
appVars == <<app, handed, spent>>

----------------------------------------------------------------------------
(* JavaScript values that cross the bridge.  Every value is a record       *)
(* [t, k, items]: t is what util.typof yields for it, k its payload (the   *)
(* text of a string, the name of a function, the ref of an element), items *)
(* the members of an array or object.                                      *)

Val(t, k) == [t |-> t, k |-> k, el |-> FALSE, items |-> <<>>]
ElementVal(ref) == [t |-> "object", k |-> ref, el |-> TRUE, items |-> <<>>]
ArrayVal(items) == [t |-> "array", k |-> "", el |-> FALSE, items |-> items]
ObjectVal(items) == [t |-> "object", k |-> "", el |-> FALSE, items |-> items]
StringVal(s) == Val("string", s)
FunctionVal(f) == Val("function", f)

\* the functions user code hands to the bridge
Fns == {"f1", "f2"}

Refs == {"A", "B", "C"}

IsFunction(v) == v.t = "function"
IsElement(v) == v.t = "object" /\ v.el

----------------------------------------------------------------------------
(* Bounds of the model.                                                    *)

\* normalize is not asked for a new callback id beyond this app.uid
MaxUid == 2
\* the document listener's queue holds at most this many updates
MaxQueue == 2

----------------------------------------------------------------------------
(* Number.prototype.toString for the non-negative integers app.uid takes.  *)

Digit(d) ==
  CASE d = 0 -> "0" [] d = 1 -> "1" [] d = 2 -> "2" [] d = 3 -> "3"
    [] d = 4 -> "4" [] d = 5 -> "5" [] d = 6 -> "6" [] d = 7 -> "7"
    [] d = 8 -> "8" [] d = 9 -> "9"

RECURSIVE NumToString(_)
NumToString(n) ==
  IF n < 10 THEN Digit(n) ELSE NumToString(n \div 10) \o Digit(n % 10)

----------------------------------------------------------------------------
(* The app object of ctrl.js.  destroy() sets callbacks and doc to null:   *)
(* hasCallbacks and hasDoc say whether they are objects.  callbacks maps   *)
(* property keys to a function's name or to "undefined"; updates is        *)
(* app.doc.listener.updates.                                               *)

NewApp(id) ==
  [id |-> id, uid |-> 0, hasCallbacks |-> TRUE, callbacks |-> << >>,
   vm |-> "null", hasDoc |-> TRUE, updates |-> << >>]

Task(module, method, args) == [module |-> module, method |-> method, args |-> args]

\* app.callbacks[key]
GetCallback(a, key) ==
  IF key \in DOMAIN a.callbacks THEN a.callbacks[key] ELSE "undefined"

\* app.callbacks[key] = v
PutCallback(a, key, v) ==
  [a EXCEPT !.callbacks =
     [k \in (DOMAIN a.callbacks) \cup {key} |-> IF k = key THEN v ELSE a.callbacks[k]]]

(* The effects of one call at the ctrl.js level are threaded through a     *)
(* world record: the app, the history variables, the batches handed to     *)
(* renderer.sendTasks, the order of the steps taken, whether an exception  *)
(* is propagating, and the value returned.                                 *)
\* the property keys normalize hands out within the bound
Keys == { NumToString(i) : i \in 1..MaxUid }

World(a, h, n) ==
  [app |-> a, handed |-> h, spent |-> n, sent |-> << >>, trace |-> << >>,
   thrown |-> FALSE, ret |-> "undefined"]

Throw(w) == [w EXCEPT !.thrown = TRUE, !.ret = "throw"]
Return(w, v) == IF w.thrown THEN w ELSE [w EXCEPT !.ret = v]
Step(w, e) == [w EXCEPT !.trace = Append(@, e)]

ErrInvalidData == "Error: invalid data"
ErrInvalidRef == "Error: invalid element reference"
ErrInvalidCallback == "Error: invalid callback id"
ErrInvalidInstance == "Error: invalid instance id"

----------------------------------------------------------------------------
(* normalize, ctrl.js:325-351                                              *)

\* normalize taking the lowest free key of the callback table for a function
\* instead of the next counter value
normalizeReuseKey(v, w) ==
  CASE v.t \in {"undefined", "null"} ->
         [w |-> w, v |-> StringVal("")]
    [] v.t = "regexp" ->
         [w |-> w, v |-> StringVal("/" \o v.k \o "/")]
    [] v.t = "date" ->
         IF v.k = "0"
         THEN [w |-> w, v |-> StringVal("1970-01-01T00:00:00.000Z")]
         ELSE [w |-> Throw(w), v |-> v]
    [] v.t \in {"number", "string", "boolean", "array", "object"} ->
         IF v.el THEN [w |-> w, v |-> StringVal(v.k)] ELSE [w |-> w, v |-> v]
    [] v.t = "function" ->
         LET free == { i \in 1..(w.app.uid + 1) :
                         GetCallback(w.app, NumToString(i)) = "undefined" }
             n == CHOOSE i \in free : \A j \in free : i <= j
             uid == IF n > w.app.uid THEN n ELSE w.app.uid
             key == NumToString(n)
             a1 == [w.app EXCEPT !.uid = uid]
         IN IF ~w.app.hasCallbacks
            THEN [w |-> Throw([w EXCEPT !.app = a1]), v |-> v]
            ELSE [w |-> [w EXCEPT !.app = PutCallback(a1, key, v.k),
                                  !.handed = Append(@, <<key, v.k>>)],
                  v |-> StringVal(key)]
    [] OTHER ->
         [w |-> w, v |-> StringVal("{}")]

\* normalize without the instanceof renderer.Element test
normalizeKeepElement(v, w) ==
  CASE v.t \in {"undefined", "null"} ->
         [w |-> w, v |-> StringVal("")]
    [] v.t = "regexp" ->
         [w |-> w, v |-> StringVal("/" \o v.k \o "/")]
    [] v.t = "date" ->
         IF v.k = "0"
         THEN [w |-> w, v |-> StringVal("1970-01-01T00:00:00.000Z")]
         ELSE [w |-> Throw(w), v |-> v]
    [] v.t \in {"number", "string", "boolean", "array", "object"} ->
         [w |-> w, v |-> v]
    [] v.t = "function" ->
         LET uid == w.app.uid + 1
             key == NumToString(uid)
             a1 == [w.app EXCEPT !.uid = uid]
         IN IF ~w.app.hasCallbacks
            THEN [w |-> Throw([w EXCEPT !.app = a1]), v |-> v]
            ELSE [w |-> [w EXCEPT !.app = PutCallback(a1, key, v.k),
                                  !.handed = Append(@, <<key, v.k>>)],
                  v |-> StringVal(key)]
    [] OTHER ->
         [w |-> w, v |-> StringVal("{}")]

\* what normalize(v, app) does to w and the value it returns
normalize(v, w) ==
  CASE v.t \in {"undefined", "null"} ->
         [w |-> w, v |-> StringVal("")]
    [] v.t = "regexp" ->
         [w |-> w, v |-> StringVal("/" \o v.k \o "/")]
    [] v.t = "date" ->
         \* toISOString throws a RangeError on an invalid date
         IF v.k = "0"
         THEN [w |-> w, v |-> StringVal("1970-01-01T00:00:00.000Z")]
         ELSE [w |-> Throw(w), v |-> v]
    [] v.t \in {"number", "string", "boolean", "array", "object"} ->
         IF v.el THEN [w |-> w, v |-> StringVal(v.k)] ELSE [w |-> w, v |-> v]
    [] v.t = "function" ->
         \* app.callbacks[++app.uid] = v; return app.uid.toString()
         LET uid == w.app.uid + 1
             key == NumToString(uid)
             a1 == [w.app EXCEPT !.uid = uid]
         IN IF ~w.app.hasCallbacks
            THEN [w |-> Throw([w EXCEPT !.app = a1]), v |-> v]
            ELSE [w |-> [w EXCEPT !.app = PutCallback(a1, key, v.k),
                                  !.handed = Append(@, <<key, v.k>>)],
                  v |-> StringVal(key)]
    [] OTHER ->
         \* JSON.stringify(v)
         [w |-> w, v |-> StringVal("{}")]

\* task.args.map(arg => normalize(arg, app)), from argument i on
RECURSIVE normalizeArgs(_, _, _)
normalizeArgs(args, i, w) ==
  IF i > Len(args) \/ w.thrown THEN [w |-> w, args |-> args]
  ELSE LET r == normalize(args[i], w)
       IN normalizeArgs([args EXCEPT ![i] = r.v], i + 1, r.w)

\* tasks.forEach(task => ...), from task i on
RECURSIVE normalizeTasks(_, _, _)
normalizeTasks(tasks, i, w) ==
  IF i > Len(tasks) \/ w.thrown THEN [w |-> w, tasks |-> tasks]
  ELSE LET r == normalizeArgs(tasks[i].args, 1, w)
       IN normalizeTasks([tasks EXCEPT ![i].args = r.args], i + 1, r.w)

----------------------------------------------------------------------------
(* callTasks, ctrl.js:306-316, and updateActions, ctrl.js:289-299          *)

\* renderer.sendTasks(id, tasks, callbackId): the native transport
sendTasks(w, id, tasks, callbackId) ==
  [w EXCEPT !.sent = Append(@, [id |-> id, tasks |-> tasks, cb |-> callbackId]),
            !.ret = "sendTasks"]

\* the argument of callTasks: one task, or an array of tasks
OneTask(t) == [array |-> FALSE, tasks |-> << t >>]
TaskList(ts) == [array |-> TRUE, tasks |-> ts]

\* if (typof(tasks) !== 'array') tasks = [tasks]: both shapes become the
\* sequence of their tasks
callTasks(w, given) ==
  LET r == normalizeTasks(given.tasks, 1, w)
  IN IF r.w.thrown THEN r.w
     ELSE sendTasks(r.w, r.w.app.id, r.tasks, "-1")

\* updateActions leaving the drained updates in the listener's queue
updateActionsKeepQueue(w) ==
  LET w1 == Step(w, "flush")
      drain == w1.app.hasDoc /\ Len(w1.app.updates) > 0
      tasks == IF drain THEN w1.app.updates ELSE << >>
  IN IF Len(tasks) > 0 THEN callTasks(w1, TaskList(tasks)) ELSE Return(w1, "undefined")

updateActions(w) ==
  LET w1 == Step(w, "flush")
      drain == w1.app.hasDoc /\ Len(w1.app.updates) > 0
      tasks == IF drain THEN w1.app.updates ELSE << >>
      w2 == IF drain THEN [w1 EXCEPT !.app.updates = << >>] ELSE w1
  IN IF Len(tasks) > 0 THEN callTasks(w2, TaskList(tasks)) ELSE Return(w2, "undefined")

\* app.doc.listener.<signal>(): a TypeError when app.doc is null
Signal(w, signal) ==
  IF w.thrown THEN w
  ELSE IF ~w.app.hasDoc THEN Throw(w)
  ELSE Step(w, signal)

----------------------------------------------------------------------------
(* destroy, ctrl.js:207-217                                                *)

destroy(a) ==
  [a EXCEPT !.id = "", !.vm = "null", !.hasDoc = FALSE, !.updates = << >>,
            !.hasCallbacks = FALSE, !.callbacks = << >>]

----------------------------------------------------------------------------
(* callback, ctrl.js:267-283.  The stored function is user code; does is  *)
(* what it does when this call runs it: it returns, it throws, it calls    *)
(* callback() with its own id again (and returns when that call runs it),  *)
(* or it destroys its app.                                                 *)

Behaviours == {"return", "throw", "again", "destroy"}

\* the values of ifKeepAlive: absent, false, true, null, 0, '' and 'yes'
KeepAlives == {"undefined", "false", "true", "null", "0", "''", "yes"}

\* typeof ifKeepAlive === 'undefined' || ifKeepAlive === false
ClearsSlot(ifKeepAlive) == ifKeepAlive \in {"undefined", "false"}

RECURSIVE callback(_, _, _, _)
callback(w, callbackId, ifKeepAlive, does) ==
  IF ~w.app.hasCallbacks THEN Throw(w)
  ELSE
    LET f == GetCallback(w.app, callbackId)
    IN IF f \in Fns
       THEN
         LET w0 == [Step(w, "call") EXCEPT
                      !.spent = IF ClearsSlot(ifKeepAlive) THEN @ \cup {callbackId} ELSE @]
             \* callback(data)
             w1 == CASE does = "return" -> w0
                      [] does = "throw" -> Throw(w0)
                      [] does = "again" ->
                           LET n == callback(w0, callbackId, "undefined", "return")
                           IN IF n.thrown THEN n
                              ELSE Step(n, IF n.ret = ErrInvalidCallback
                                           THEN "nested:error"
                                           ELSE "nested:done")
                      [] does = "destroy" -> [w0 EXCEPT !.app = destroy(@)]
             w2 == IF w1.thrown \/ ~ClearsSlot(ifKeepAlive) THEN w1
                   ELSE IF ~w1.app.hasCallbacks THEN Throw(w1)
                   ELSE [w1 EXCEPT !.app = PutCallback(@, callbackId, "undefined")]
         IN IF w2.thrown THEN w2
            ELSE Return(Signal(updateActions(w2), "updateFinish"), "undefined")
       ELSE Return(w, ErrInvalidCallback)

----------------------------------------------------------------------------
(* fireEvent, ctrl.js:240-258.  The document holds the elements Refs; h    *)
(* gives, for each element, what its handler for the event does: it        *)
(* returns false, true or undefined, or it throws.  A handler is user      *)
(* code: one that returns has changed its element, which queues an update. *)

HandlerResults == {"false", "true", "undefined", "throw"}

HandlerUpdate(ref) == Task("dom", "updateAttrs", << StringVal(ref) >>)

\* app.doc.fireEvent(el, type, e, domChanges)
docFireEvent(w, ref, h) ==
  IF h[ref] = "throw" THEN Throw(Step(w, ref))
  ELSE Step([w EXCEPT !.app.updates = Append(@, HandlerUpdate(ref))], ref)

\* the branch for a single ref
fireEventRef(w, ref, h) ==
  IF ~w.app.hasDoc THEN Throw(w)
  ELSE IF ref \in Refs
  THEN LET w1 == docFireEvent(w, ref, h)
       IN IF w1.thrown THEN w1
          ELSE Return(Signal(updateActions(w1), "updateFinish"), h[ref])
  ELSE Return(w, ErrInvalidRef)

\* app.fireEvent(ref, type, e), the method of App that ctrl.js calls back
appFireEvent(w, ref, h) == fireEventRef(w, ref, h)

\* the loop stopping at the first result that is truthy, not at the first
\* that is not false
RECURSIVE someTruthy(_, _, _, _)
someTruthy(w, refs, i, h) ==
  IF i > Len(refs) \/ w.thrown THEN w
  ELSE LET r == appFireEvent(w, refs[i], h)
       IN IF r.thrown THEN r
          ELSE IF r.ret \notin {"false", "undefined"} THEN r
          ELSE someTruthy(r, refs, i + 1, h)

\* ref.some(ref => app.fireEvent(ref, type, e) !== false), from candidate i on
RECURSIVE some(_, _, _, _)
some(w, refs, i, h) ==
  IF i > Len(refs) \/ w.thrown THEN w
  ELSE LET r == appFireEvent(w, refs[i], h)
       IN IF r.thrown THEN r
          ELSE IF r.ret # "false" THEN r
          ELSE some(r, refs, i + 1, h)

\* the branch for Array.isArray(ref)
fireEventList(w, refs, h) == Return(some(w, refs, 1, h), "undefined")

----------------------------------------------------------------------------
(* refresh, ctrl.js:183-201                                                *)

\* refresh signalling refreshFinish before it flushes
refreshSignalFirst(w, data) ==
  IF w.app.vm # "null" /\ data # ""
  THEN LET w1 == Step(w, IF w.app.vm = "hook" THEN "refreshData" ELSE "extend")
       IN Return(updateActions(Signal(w1, "refreshFinish")), "undefined")
  ELSE Return(w, ErrInvalidData)

refresh(w, data) ==
  IF w.app.vm # "null" /\ data # ""
  THEN LET w1 == Step(w, IF w.app.vm = "hook" THEN "refreshData" ELSE "extend")
       IN Return(Signal(updateActions(w1), "refreshFinish"), "undefined")
  ELSE Return(w, ErrInvalidData)

----------------------------------------------------------------------------
(* init, ctrl.js:30-176.  The bundle body is user code: it calls           *)
(* bootstrap, render or require(name) once, calls none of them, or throws. *)

Bodies == {"bootstrap", "render", "require", "none", "throws"}

\* the updates the document listener queues while the root view-model and
\* its element tree are built
CreationTasks ==
  << Task("dom", "createBody", << ObjectVal(<< StringVal("div") >>) >>) >>

\* bootstrap(app, name, config, data) of ./bundle
bootstrap(w) ==
  Step([w EXCEPT !.app.vm = "plain",
                 !.app.updates = IF w.app.hasDoc THEN @ \o CreationTasks ELSE @],
       "bootstrap")

bundleBootstrap(w) == Return(Signal(updateActions(bootstrap(w)), "createFinish"), "undefined")
bundleRender(w) == Return(bootstrap(w), "undefined")
bundleRequire(w) == Return(bootstrap(w), "undefined")

init(w, body) ==
  CASE body = "bootstrap" -> bundleBootstrap(w)
    [] body = "render" -> bundleRender(w)
    [] body = "require" -> bundleRequire(w)
    [] body = "throws" -> Throw(w)
    [] OTHER -> Return(w, "undefined")

----------------------------------------------------------------------------
(* runtime/index.js.  The frameworks of ./config: each has a name and      *)
(* defines a subset of the instance methods.                               *)

Ids == {"x", "y"}

FrameworkNames == {"Weex", "Lite"}

InstanceMethods ==
  {"prepareInstance", "createInstance", "destroyInstance", "refreshInstance",
   "receiveTasks", "getRoot"}

\* frameworks[name][method] is a function
Defines(name, method) ==
  \/ name = "Weex" /\ method \in InstanceMethods
  \/ name = "Lite" /\ method = "createInstance"

\* frameworks[name] is truthy
Registered(name) == name \in FrameworkNames

\* what a framework's method may do: return a value, return an error value,
\* or throw
Outcomes == {"value", "error", "throw"}

FwResult(outcome) ==
  CASE outcome = "value" -> "fw:value"
    [] outcome = "error" -> "fw:error"
    [] OTHER -> "throw"

(* A bundle: its first line and its body.  lead says whether the text      *)
(* starts with the comment marker, obj whether a {...} group without an    *)
(* inner brace follows it, eol whether a line break ends that line, json   *)
(* whether the group parses as JSON; framework and version are the fields  *)
(* of the parsed object ("undefined" when it has none).                    *)
Bundle(lead, obj, eol, json, framework, version, body) ==
  [lead |-> lead, obj |-> obj, eol |-> eol, json |-> json,
   framework |-> framework, version |-> version, body |-> body]

HeaderOf(framework, version, body) ==
  Bundle(TRUE, TRUE, TRUE, TRUE, framework, version, body)

NoCode == Bundle(FALSE, FALSE, FALSE, FALSE, "undefined", "undefined", "none")

Codes ==
  { HeaderOf("Weex", "1.0", b) : b \in {"bootstrap", "none", "throws"} } \cup
  { HeaderOf("Lite", "2.0", "bootstrap"),
    HeaderOf("Ghost", "3.0", "bootstrap"),
    HeaderOf("undefined", "4.0", "bootstrap"),
    \* no header line at all
    Bundle(FALSE, FALSE, TRUE, FALSE, "undefined", "undefined", "bootstrap"),
    \* the JSON-looking comment is preceded by other content
    Bundle(FALSE, TRUE, TRUE, TRUE, "Lite", "2.0", "bootstrap"),
    \* the braces do not hold JSON
    Bundle(TRUE, TRUE, TRUE, FALSE, "undefined", "undefined", "bootstrap"),
    \* the header is the whole text: no line break follows it
    Bundle(TRUE, TRUE, FALSE, TRUE, "Lite", "2.0", "none") }

\* a bundle with a Weex header whose body calls bootstrap once
validBundle == HeaderOf("Weex", "1.0", "bootstrap")

\* versionRegExp.exec(code), then JSON.parse in a try/catch
checkVersion(code) ==
  IF code.lead /\ code.obj /\ code.eol /\ code.json
  THEN [found |-> TRUE, framework |-> code.framework, version |-> code.version]
  ELSE [found |-> FALSE, framework |-> "undefined", version |-> "undefined"]

(* An entry of instanceMap: kind is "none" when the id has no entry,       *)
(* "placeholder" for the {} of prepareInstance, "shell" for what a         *)
(* framework's prepareInstance returned, "info" for what createInstance    *)
(* stored.                                                                 *)
Entry(kind, framework, version) ==
  [kind |-> kind, framework |-> framework, version |-> version]

NoEntry == Entry("none", "undefined", "undefined")
Placeholder == Entry("placeholder", "undefined", "undefined")

\* the record kept of a call: the entry point, its arguments, what it
\* returned, the framework methods it invoked, the batches sent, the steps
\* taken, and config.bundleVersion
Call(op, id, arg, arg2, code, ret, fw, sent, trace, version) ==
  [op |-> op, id |-> id, arg |-> arg, arg2 |-> arg2, code |-> code, ret |-> ret,
   fw |-> fw, sent |-> sent, trace |-> trace, version |-> version]

NoCall == Call("none", "", "", "", NoCode, "undefined", << >>, << >>, << >>, "unset")

FwCall(name, method, id, arg) ==
  [framework |-> name, method |-> method, id |-> id, arg |-> arg]

\* what is remembered of the call before the last one: a prepareInstance
\* with its id and type, or that it was some other call
Brief(c) ==
  IF c.op = "prepareInstance"
  THEN [op |-> c.op, id |-> c.id, arg |-> c.arg, ret |-> c.ret]
  ELSE [op |-> "other", id |-> "", arg |-> "", ret |-> ""]

Types == {"", "Weex", "Lite", "Ghost"}
Payloads == {"p1", "p2"}

\* prepareInstance, index.js:63-73
prepareInstance(id, type0) ==
  LET type == IF type0 = "" THEN "Weex" ELSE type0
  IN /\ IF Registered(type) /\ Defines(type, "prepareInstance")
        THEN \E outcome \in Outcomes :
             /\ instanceMap' =
                  IF outcome = "throw" THEN instanceMap
                  ELSE [instanceMap EXCEPT ![id] = Entry("shell", type, "undefined")]
             /\ last' = Call("prepareInstance", id, type0, "", NoCode,
                             IF outcome = "throw" THEN "throw" ELSE "undefined",
                             << FwCall(type, "prepareInstance", id, "") >>,
                             << >>, << >>, "unset")
        ELSE /\ instanceMap' = [instanceMap EXCEPT ![id] = Placeholder]
             /\ last' = Call("prepareInstance", id, type0, "", NoCode, "undefined",
                             << >>, << >>, << >>, "unset")
     /\ prev' = Brief(last)
     /\ UNCHANGED <<destroyed, appVars>>

\* createInstance of the Weex framework: a new App(id), then init
WeexCreateInstance(id, code) ==
  init(World(NewApp(id), << >>, {}), code.body)

\* createInstance storing the entry only once the framework's
\* createInstance has returned, so that one that throws leaves no entry
createInstanceStoreLast(id, code) ==
  /\ IF instanceMap[id].kind = "none"
     THEN LET sniffed == checkVersion(code)
              framework == IF Registered(sniffed.framework)
                           THEN sniffed.framework ELSE "Weex"
              w == WeexCreateInstance(id, code)
          IN /\ IF framework = "Weex"
                THEN last' = Call("createInstance", id, "", "", code,
                                  IF w.thrown THEN "throw" ELSE "fw:value",
                                  << FwCall(framework, "createInstance", id, "") >>,
                                  w.sent, w.trace, sniffed.version)
                ELSE \E outcome \in Outcomes :
                     last' = Call("createInstance", id, "", "", code, FwResult(outcome),
                                  << FwCall(framework, "createInstance", id, "") >>,
                                  << >>, << >>, sniffed.version)
             /\ instanceMap' =
                  IF last'.ret = "throw" THEN instanceMap
                  ELSE [instanceMap EXCEPT ![id] = Entry("info", framework, sniffed.version)]
     ELSE /\ instanceMap' = instanceMap
          /\ last' = Call("createInstance", id, "", "", code, ErrInvalidInstance,
                          << >>, << >>, << >>, "unset")
  /\ prev' = Brief(last)
  /\ UNCHANGED <<destroyed, appVars>>

\* createInstance binding the entry to whatever name the header gives,
\* without the fallback to 'Weex'
createInstanceNoDefault(id, code) ==
  /\ IF instanceMap[id].kind = "none"
     THEN LET sniffed == checkVersion(code)
              framework == sniffed.framework
              w == WeexCreateInstance(id, code)
          IN /\ instanceMap' =
                  [instanceMap EXCEPT ![id] = Entry("info", framework, sniffed.version)]
             /\ IF framework = "Weex"
                THEN last' = Call("createInstance", id, "", "", code,
                                  IF w.thrown THEN "throw" ELSE "fw:value",
                                  << FwCall(framework, "createInstance", id, "") >>,
                                  w.sent, w.trace, sniffed.version)
                ELSE \E outcome \in Outcomes :
                     last' = Call("createInstance", id, "", "", code, FwResult(outcome),
                                  << FwCall(framework, "createInstance", id, "") >>,
                                  << >>, << >>, sniffed.version)
     ELSE /\ instanceMap' = instanceMap
          /\ last' = Call("createInstance", id, "", "", code, ErrInvalidInstance,
                          << >>, << >>, << >>, "unset")
  /\ prev' = Brief(last)
  /\ UNCHANGED <<destroyed, appVars>>

\* createInstance, index.js:83-97
createInstance(id, code) ==
  /\ IF instanceMap[id].kind = "none"
     THEN LET sniffed == checkVersion(code)
              framework == IF Registered(sniffed.framework)
                           THEN sniffed.framework ELSE "Weex"
              w == WeexCreateInstance(id, code)
          IN /\ instanceMap' =
                  [instanceMap EXCEPT ![id] = Entry("info", framework, sniffed.version)]
             /\ IF framework = "Weex"
                THEN last' = Call("createInstance", id, "", "", code,
                                  IF w.thrown THEN "throw" ELSE "fw:value",
                                  << FwCall(framework, "createInstance", id, "") >>,
                                  w.sent, w.trace, sniffed.version)
                ELSE \E outcome \in Outcomes :
                     last' = Call("createInstance", id, "", "", code, FwResult(outcome),
                                  << FwCall(framework, "createInstance", id, "") >>,
                                  << >>, << >>, sniffed.version)
     ELSE /\ instanceMap' = instanceMap
          /\ last' = Call("createInstance", id, "", "", code, ErrInvalidInstance,
                          << >>, << >>, << >>, "unset")
  /\ prev' = Brief(last)
  /\ UNCHANGED <<destroyed, appVars>>

\* the body shared by the functions genInstance and adaptInstance install:
\* look the entry up and delegate methodName to its framework; the set of
\* the records the call may leave
Delegate(op, methodName, id, arg) ==
  LET info == instanceMap[id]
  IN IF info.kind # "none" /\ Registered(info.framework)
     THEN IF Defines(info.framework, methodName)
          THEN { Call(op, id, arg, "", NoCode, FwResult(outcome),
                      << FwCall(info.framework, methodName, id, arg) >>,
                      << >>, << >>, "unset") : outcome \in Outcomes }
          \* calling undefined: a TypeError
          ELSE { Call(op, id, arg, "", NoCode, "throw", << >>, << >>, << >>, "unset") }
     ELSE { Call(op, id, arg, "", NoCode, ErrInvalidInstance, << >>, << >>, << >>, "unset") }

\* delete instanceMap[id] when methodName is destroyInstance
DeletesEntry(methodName) == methodName = "destroyInstance"

\* genInstance with the entry deleted after the delegation, so that a
\* teardown that throws leaves the entry behind
genInstanceDeleteLast(methodName, id, arg) ==
  /\ \E c \in Delegate(methodName, methodName, id, arg) :
       /\ last' = c
       /\ instanceMap' = IF DeletesEntry(methodName) /\ c.ret # "throw"
                         THEN [instanceMap EXCEPT ![id] = NoEntry]
                         ELSE instanceMap
  /\ destroyed' = IF methodName = "destroyInstance" THEN destroyed \cup {id}
                  ELSE destroyed
  /\ prev' = Brief(last)
  /\ UNCHANGED appVars

\* genInstance, index.js:126-138
genInstance(methodName, id, arg) ==
  /\ instanceMap' = IF DeletesEntry(methodName)
                    THEN [instanceMap EXCEPT ![id] = NoEntry]
                    ELSE instanceMap
  /\ last' \in Delegate(methodName, methodName, id, arg)
  /\ destroyed' = IF methodName = "destroyInstance" THEN destroyed \cup {id}
                  ELSE destroyed
  /\ prev' = Brief(last)
  /\ UNCHANGED appVars

\* adaptInstance delegating the native name instead of the adapted method
adaptInstanceNativeName(methodName, nativeMethodName, id, arg) ==
  /\ last' \in Delegate(nativeMethodName, nativeMethodName, id, arg)
  /\ prev' = Brief(last)
  /\ UNCHANGED <<instanceMap, destroyed, appVars>>

\* adaptInstance, index.js:148-157
adaptInstance(methodName, nativeMethodName, id, arg) ==
  /\ last' \in Delegate(nativeMethodName, methodName, id, arg)
  /\ prev' = Brief(last)
  /\ UNCHANGED <<instanceMap, destroyed, appVars>>

PrepareInstance == \E id \in Ids, type \in Types : prepareInstance(id, type)
CreateInstance == \E id \in Ids, code \in Codes : createInstance(id, code)
DestroyInstance == \E id \in Ids : genInstance("destroyInstance", id, "")
RefreshInstance == \E id \in Ids : genInstance("refreshInstance", id, "data")
ReceiveTasks == \E id \in Ids, p \in Payloads : genInstance("receiveTasks", id, p)
GetRoot == \E id \in Ids : genInstance("getRoot", id, "")
CallJS == \E id \in Ids, p \in Payloads : adaptInstance("receiveTasks", "callJS", id, p)

Init ==
  /\ instanceMap = [id \in Ids |-> NoEntry]
  /\ destroyed = {}
  /\ prev = Brief(NoCall)
  /\ last = NoCall
  /\ app = NewApp("x")
  /\ handed = << >>
  /\ spent = {}

Next ==
  \/ PrepareInstance
  \/ CreateInstance
  \/ DestroyInstance
  \/ RefreshInstance
  \/ ReceiveTasks
  \/ GetRoot
  \/ CallJS

Spec == Init /\ [][Next]_vars

----------------------------------------------------------------------------
(* Properties of the instance registry, checked under Spec.                *)

\* the entry is bound to a registered framework
Bound(info) == info.kind # "none" /\ Registered(info.framework)

\* C1: after any call destroyInstance(id) the registry holds no entry for
\* id, whether the delegated teardown returned a value, returned an error
\* value or threw, or the entry was a placeholder without a framework
C1_DestroyRemovesEntry ==
  last.op = "destroyInstance" => instanceMap[last.id] = NoEntry

\* a destroyInstance whose delegated teardown threw
C1_Witness ==
  /\ last.op = "destroyInstance"
  /\ last.ret = "throw"
  /\ Len(last.fw) = 1
  /\ instanceMap[last.id] = NoEntry

\* C2: once destroyInstance(id) has been called, every later entry-point
\* call that references id returns the explicit error, invokes no framework
\* method and creates no registry entry for id
C2_AfterDestroyOnlyErrors ==
  [][ last'.id \in destroyed =>
        /\ last'.ret = ErrInvalidInstance
        /\ last'.fw = << >>
        /\ instanceMap'[last'.id] = NoEntry ]_vars

\* C3: after prepareInstance(id, type) with a type that names no registered
\* framework, createInstance(id, code) still sniffs the header, binds id to
\* the sniffed (or default) framework and invokes its createInstance
C3_CreateAfterPlaceholder ==
  ( /\ last.op = "createInstance"
    /\ prev.op = "prepareInstance"
    /\ prev.id = last.id
    /\ prev.arg # "" /\ ~Registered(prev.arg) )
  => LET sniffed == checkVersion(last.code)
         framework == IF Registered(sniffed.framework)
                      THEN sniffed.framework ELSE "Weex"
     IN /\ instanceMap[last.id] = Entry("info", framework, sniffed.version)
        /\ last.fw = << FwCall(framework, "createInstance", last.id, "") >>

\* the creation tasks of bootstrap as they reach the transport
SentCreationTasks ==
  << Task("dom", "createBody", << ObjectVal(<< StringVal("div") >>) >>) >>

\* C4: prepareInstance('x', 'Weex', {}, {}) followed by
\* createInstance('x', validBundle, {}, {}) results in exactly one call of
\* sendTasks, with id 'x', callback id "-1" and the creation tasks
C4_PrepareThenCreateSendsOneBatch ==
  ( /\ last.op = "createInstance" /\ last.id = "x" /\ last.code = validBundle
    /\ prev.op = "prepareInstance" /\ prev.id = "x" /\ prev.arg = "Weex"
    /\ prev.ret = "undefined" )
  => last.sent = << [id |-> "x", tasks |-> SentCreationTasks, cb |-> "-1"] >>

\* C5: for an id without an entry, refreshInstance, receiveTasks, callJS and
\* getRoot return the explicit error, invoke no framework method and leave
\* the registry unchanged; for an id bound to a framework, callJS and
\* receiveTasks invoke the framework's receiveTasks with the arguments of
\* the call
C5_UnknownIdAndCallJS ==
  [][ /\ ( /\ last'.op \in {"refreshInstance", "receiveTasks", "callJS", "getRoot"}
           /\ instanceMap[last'.id] = NoEntry )
         => /\ last'.ret = ErrInvalidInstance
            /\ last'.fw = << >>
            /\ instanceMap' = instanceMap
      /\ ( /\ last'.op \in {"receiveTasks", "callJS"}
           /\ Bound(instanceMap[last'.id])
           /\ Defines(instanceMap[last'.id].framework, "receiveTasks") )
         => /\ last'.fw = << FwCall(instanceMap[last'.id].framework,
                                    "receiveTasks", last'.id, last'.arg) >>
            /\ last'.ret \in {"fw:value", "fw:error", "throw"} ]_vars

\* callJS on a bound id reached the framework's receiveTasks
C5_Witness ==
  /\ last.op = "callJS"
  /\ last.fw = << FwCall("Weex", "receiveTasks", "x", "p2") >>
  /\ last.ret = "fw:value"

\* C6: when id is bound to a registered framework that does not define the
\* requested instance method, the entry point returns the explicit error
\* and does not throw
C6_UnsupportedMethodReturnsError ==
  [][ ( /\ last'.op \in {"destroyInstance", "refreshInstance", "receiveTasks", "getRoot"}
        /\ Bound(instanceMap[last'.id])
        /\ ~Defines(instanceMap[last'.id].framework, last'.op) )
      => last'.ret = ErrInvalidInstance ]_vars

\* the lifecycle state of an id: CREATED when createInstance bound its entry,
\* PREPARED when the entry is a shell or placeholder of prepareInstance,
\* DESTROYED when destroyInstance was called and the id has no entry
LifecycleState(map, gone, id) ==
  CASE map[id].kind = "info" -> "CREATED"
    [] map[id].kind \in {"shell", "placeholder"} -> "PREPARED"
    [] map[id].kind = "none" /\ id \in gone -> "DESTROYED"
    [] OTHER -> "UNPREPARED"

\* the position of a state along UNPREPARED -> PREPARED -> CREATED -> DESTROYED
LifecycleRank(state) ==
  CASE state = "UNPREPARED" -> 0
    [] state = "PREPARED" -> 1
    [] state = "CREATED" -> 2
    [] state = "DESTROYED" -> 3

\* C11: over any sequence of entry-point calls the lifecycle state of every
\* id only moves forward along UNPREPARED -> PREPARED -> CREATED ->
\* DESTROYED; in particular no call other than destroyInstance takes a
\* CREATED id back to a shell or placeholder
C11_LifecycleOnlyForward ==
  [][ \A id \in Ids :
        LifecycleRank(LifecycleState(instanceMap', destroyed', id))
          >= LifecycleRank(LifecycleState(instanceMap, destroyed, id)) ]_vars

\* the first line of the bundle is a comment holding a JSON object
ParsableHeader(code) == code.lead /\ code.obj /\ code.eol /\ code.json

\* C18: every entry createInstance wrote is bound to a registered
\* framework; a createInstance that wrote the entry bound it to the
\* framework the header names, or to 'Weex' when the bundle has no parsable
\* header or names a framework that is not registered, wrote the header's
\* version to config.bundleVersion, invoked that framework's createInstance
\* once and returned what it returned
C18_CreatedEntryBoundToRegistered ==
  /\ \A id \in Ids : instanceMap[id].kind = "info" => Bound(instanceMap[id])
  /\ ( last.op = "createInstance" /\ last.ret # ErrInvalidInstance )
     => LET named == ParsableHeader(last.code) /\ Registered(last.code.framework)
            framework == IF named THEN last.code.framework ELSE "Weex"
            version == IF ParsableHeader(last.code) THEN last.code.version
                       ELSE "undefined"
        IN /\ instanceMap[last.id] = Entry("info", framework, version)
           /\ last.version = version
           /\ last.fw = << FwCall(framework, "createInstance", last.id, "") >>
           /\ last.ret \in {"fw:value", "fw:error", "throw"}

\* a bundle whose header names the unregistered framework Ghost was bound
\* to Weex, with the header's version stamped into the config
C18_Witness ==
  /\ last.op = "createInstance"
  /\ last.code = HeaderOf("Ghost", "3.0", "bootstrap")
  /\ instanceMap[last.id] = Entry("info", "Weex", "3.0")
  /\ last.version = "3.0"
  /\ last.fw = << FwCall("Weex", "createInstance", last.id, "") >>
  /\ last.ret = "fw:value"

----------------------------------------------------------------------------
(* The controls of ctrl.js, driven on one app.                             *)

\* updates the document listener queues when user code changes the document
QueueTasks ==
  { Task("dom", "addElement", << StringVal("A"), ObjectVal(<< StringVal("div") >>) >>),
    Task("dom", "addEvent", << ElementVal("B"), FunctionVal("f1") >>) }

\* argument lists of the tasks modules hand to callTasks
ArgLists ==
  { << FunctionVal(f) >> : f \in Fns } \cup
  { << FunctionVal("f1"), FunctionVal("f2") >>,
    << ElementVal("A"), Val("number", "1"), Val("undefined", ""), Val("null", ""),
       Val("regexp", "a"), Val("date", "0"), Val("error", "") >>,
    << ArrayVal(<< FunctionVal("f1") >>), ObjectVal(<< ElementVal("B") >>) >>,
    << Val("date", "NaN") >> }

CallInputs ==
  { OneTask(Task("m", "call", args)) : args \in ArgLists } \cup
  { TaskList(<< Task("m", "call", << FunctionVal("f2") >>),
                Task("m", "call", << FunctionVal("f1") >>) >>) }

\* callback ids the renderer may pass: the keys, and one never handed out
CallbackIds == Keys \cup {"0"}

\* the call stays within the bound of the model
WithinBounds(w) == w.app.uid <= MaxUid

\* the state after a control returned (or threw) with world w
Done(op, arg, arg2, w) ==
  /\ WithinBounds(w)
  /\ app' = w.app
  /\ handed' = w.handed
  /\ spent' = w.spent
  /\ last' = Call(op, app.id, arg, arg2, NoCode, w.ret, << >>, w.sent, w.trace, "unset")
  /\ UNCHANGED rtVars

W == World(app, handed, spent)

\* user code changes the document: the listener queues an update
DocMutate ==
  \E t \in QueueTasks :
    /\ app.hasDoc
    /\ Len(app.updates) < MaxQueue
    /\ Done("mutate", "", "", [W EXCEPT !.app.updates = Append(@, t)])

CallTasks == \E given \in CallInputs : Done("callTasks", given, "", callTasks(W, given))

UpdateActions == Done("updateActions", "", "", updateActions(W))

\* with a function stored at id: every keepAlive with a function that
\* returns, and the other behaviours with keepAlive absent and true; with
\* none stored the other arguments are not read
Callback ==
  \E id \in CallbackIds, keep \in KeepAlives, does \in Behaviours :
    /\ IF app.hasCallbacks /\ GetCallback(app, id) \in Fns
       THEN does = "return" \/ keep \in {"undefined", "true"}
       ELSE does = "return" /\ keep = "undefined"
    /\ Done("callback", id, keep, callback(W, id, keep, does))

\* one handler result for the event; with no element at ref it is not read
FireEvent ==
  \E ref \in Refs \cup {"Z"}, r \in HandlerResults :
    /\ (ref \notin Refs \/ ~app.hasDoc) => r = "undefined"
    /\ Done("fireEvent", ref, r, fireEventRef(W, ref, [e \in Refs |-> r]))

\* candidate lists: up to MaxCandidates different refs, Z naming no element
MaxCandidates == 2

CandidateLists ==
  { refs \in UNION { [1..n -> Refs \cup {"Z"}] : n \in 1..MaxCandidates } :
      \A i, j \in DOMAIN refs : i # j => refs[i] # refs[j] }

\* the handlers of the elements that are no candidates are not run
FireEventList ==
  \E refs \in CandidateLists, h \in [Refs -> HandlerResults] :
    /\ \A r \in Refs : (\A i \in DOMAIN refs : refs[i] # r) => h[r] = "false"
    /\ Done("fireEventList", refs, h, fireEventList(W, refs, h))

Refresh == \E data \in {"", "data"} : Done("refresh", data, "", refresh(W, data))

Destroy == Done("destroy", "", "", [W EXCEPT !.app = destroy(@)])

\* init(app, code, data) on the new app
InitApp ==
  \E body \in Bodies :
    /\ app.vm = "null" /\ app.hasDoc
    /\ Done("init", body, "", init(W, body))

NextApp ==
  \/ DocMutate
  \/ CallTasks
  \/ UpdateActions
  \/ Callback
  \/ FireEvent
  \/ Destroy

NextEvent ==
  \/ FireEvent
  \/ FireEventList
  \/ Refresh
  \/ InitApp
  \/ Destroy

NextPhase ==
  \/ InitApp
  \/ Refresh
  \/ FireEvent
  \/ CallTasks
  \/ Callback
  \/ Destroy

SpecApp == Init /\ [][NextApp]_vars

SpecPhase == Init /\ [][NextPhase]_vars

SpecEvent == Init /\ [][NextEvent]_vars

----------------------------------------------------------------------------
(* Properties of the callback table and of the batches, checked under      *)
(* SpecApp.                                                                *)

\* how often the call ran a stored function
Calls(c) == Cardinality({ i \in DOMAIN c.trace : c.trace[i] = "call" })

\* C7: a function registered through normalize gets a numeric-string id; a
\* callback() with keepAlive absent or false runs it once, and once such a
\* call has run it no later call with that id runs it again: a later call
\* returns the explicit error; after a call with keepAlive true that
\* returned, the function is still stored
C7_SingleShotCallback ==
  [][ last'.op = "callback" =>
        /\ ClearsSlot(last'.arg2) => Calls(last') <= 1
        /\ last'.arg \in spent =>
             Calls(last') = 0 /\ last'.ret = ErrInvalidCallback
        /\ ( /\ last'.arg2 = "true" /\ Calls(last') > 0
             /\ last'.ret = "undefined" /\ app'.hasCallbacks )
           => GetCallback(app', last'.arg) \in Fns ]_vars

\* String -> Number for the keys: the inverse of NumToString
KeyNumber(key) == CHOOSE n \in 0..(MaxUid + 1) : NumToString(n) = key

\* C8: the ids normalize hands out within one app strictly increase, so no
\* id is handed to two functions, and every function stored in the
\* callback table sits at the id it was handed and nowhere else is
\* overwritten by a later one
C8_CallbackIdsStrictlyIncrease ==
  /\ \A i, j \in DOMAIN handed :
       i < j => KeyNumber(handed[i][1]) < KeyNumber(handed[j][1])
  /\ \A k \in DOMAIN app.callbacks :
       app.callbacks[k] \in Fns =>
         /\ \E i \in DOMAIN handed : handed[i] = <<k, app.callbacks[k]>>
         /\ \A i \in DOMAIN handed : handed[i][1] = k => handed[i][2] = app.callbacks[k]

\* a function was registered in the last call after callback() had cleared
\* the slot of an earlier one, and it got the next id, not the free one
C8_Witness ==
  /\ last.op = "callTasks"
  /\ Len(handed) = 2
  /\ handed[1] = <<"1", "f1">> /\ handed[2] = <<"2", "f2">>
  /\ Len(last.sent) = 1
  /\ last.sent[1].tasks[1].args = << StringVal("2") >>
  /\ GetCallback(app, "1") = "undefined"
  /\ GetCallback(app, "2") = "f2"

\* the value is a live function or a document element object
Live(v) == IsFunction(v) \/ IsElement(v)

\* the value is live, or is an array or object that holds a live value
HoldsLive(v) == Live(v) \/ \E i \in DOMAIN v.items : Live(v.items[i])

\* all the arguments of all the tasks of the batches of a call
SentArgs(c) ==
  UNION { UNION { { c.sent[b].tasks[t].args[a] :
                      a \in DOMAIN c.sent[b].tasks[t].args } :
                  t \in DOMAIN c.sent[b].tasks } :
          b \in DOMAIN c.sent }

\* C10 as claimed: no argument of a task handed to sendTasks is, or holds
\* at any depth inside an array or object, a live function or an element
C10_NoLiveValueAtAnyDepth == \A v \in SentArgs(last) : ~HoldsLive(v)

\* C10 as amended: no argument of a task handed to sendTasks is itself a
\* live function or an element: a function argument has become the string
\* of its callback id and an element argument its ref
C10_NoLiveArgument ==
  /\ \A v \in SentArgs(last) : ~Live(v)
  /\ ( last.op = "callTasks" /\ Len(last.sent) = 1 )
     => LET given == last.arg.tasks
            sent == last.sent[1].tasks
        IN /\ Len(sent) = Len(given)
           /\ \A t \in DOMAIN given :
                /\ Len(sent[t].args) = Len(given[t].args)
                /\ \A a \in DOMAIN given[t].args :
                     /\ IsElement(given[t].args[a]) =>
                          sent[t].args[a] = StringVal(given[t].args[a].k)
                     /\ IsFunction(given[t].args[a]) =>
                          /\ sent[t].args[a].t = "string"
                          /\ GetCallback(app, sent[t].args[a].k) = given[t].args[a].k

\* a flush sent the queued update whose arguments were an element and a
\* function, as the ref and the callback id
C10_Witness ==
  /\ last.op = "updateActions"
  /\ Len(last.sent) = 1
  /\ last.sent[1].tasks = << Task("dom", "addEvent", << StringVal("B"), StringVal("1") >>) >>
  /\ GetCallback(app, "1") = "f1"

\* C12: a callback() that ran the stored function once and returned has
\* cleared the slot for every keepAlive other than true (absent, false,
\* null, 0, '', 'yes') and has left the function stored for keepAlive true
C12_ClearsUnlessExactlyTrue ==
  ( /\ last.op = "callback"
    /\ Calls(last) = 1
    /\ last.ret = "undefined" )
  => IF last.arg2 = "true"
     THEN GetCallback(app, last.arg) \in Fns
     ELSE GetCallback(app, last.arg) = "undefined"

\* C13: whenever no function is stored at id, also after destroy(app) set
\* app.callbacks to null, callback(app, id, data, keepAlive) returns the
\* explicit error: it does not throw, flush or signal updateFinish
C13_NoCallableReturnsError ==
  [][ ( /\ last'.op = "callback"
        /\ ~app.hasCallbacks \/ GetCallback(app, last'.arg) \notin Fns )
      => /\ last'.ret = ErrInvalidCallback
         /\ last'.trace = << >>
         /\ last'.sent = << >> ]_vars

\* the tasks of the batches from the i-th on, one after the other
RECURSIVE TasksOf(_, _)
TasksOf(batches, i) ==
  IF i > Len(batches) THEN << >> ELSE batches[i].tasks \o TasksOf(batches, i + 1)

\* the call flushed the Action Batcher
Flushed(c) == \E i \in DOMAIN c.trace : c.trace[i] = "flush"

\* the update the handler of a fireEvent call queued before the flush
QueuedByHandler(c) ==
  IF c.op = "fireEvent" /\ c.arg \in Refs /\ c.arg2 # "throw"
  THEN << HandlerUpdate(c.arg) >> ELSE << >>

Took(c, step) == \E i \in DOMAIN c.trace : c.trace[i] = step

\* C19: a callback() with keepAlive absent or false runs the function at
\* most once even when the function calls callback() with its own id while
\* it runs: the nested call returns the explicit error and does not run
\* the function; and a callback() whose function destroyed the app
\* returns without throwing
C19_SingleShotUnderReentrancy ==
  last.op = "callback" =>
    /\ ClearsSlot(last.arg2) =>
          /\ Calls(last) <= 1
          /\ ~Took(last, "nested:done")
    /\ ( last.id # "" /\ app.id = "" ) => last.ret # "throw"

----------------------------------------------------------------------------
(* Properties of the event dispatch, checked under SpecEvent.              *)

\* the elements whose handler the call ran, in the order they ran
Fired(c) == SelectSeq(c.trace, LAMBDA e : e \in Refs)

\* what dispatching to one candidate yields
DispatchResult(ref, h) == IF ref \in Refs THEN h[ref] ELSE ErrInvalidRef

\* the first candidate whose result is not exactly false, or the last one
StopIndex(refs, h) ==
  LET stops == { i \in DOMAIN refs : DispatchResult(refs[i], h) # "false" }
  IN IF stops = {} THEN Len(refs) ELSE CHOOSE i \in stops : \A j \in stops : i <= j

HandledIndex(refs, h) ==
  LET stops == { i \in DOMAIN refs : refs[i] \in Refs /\ h[refs[i]] # "false" }
  IN IF stops = {} THEN 0 ELSE CHOOSE i \in stops : \A j \in stops : i <= j

\* C17: on a live app, fireEvent with a single ref returns the handler's
\* result, or the explicit error when the ref names no element; with a
\* candidate list it returns the result of the candidate that stopped the
\* dispatch, and a candidate that names no element does not stop the
\* dispatch: the handlers of the later candidates still run
C17_ReturnsHandlerResult ==
  /\ ( last.op = "fireEvent" /\ last.id # "" /\ last.ret # "throw" )
     => last.ret = IF last.arg \in Refs THEN last.arg2 ELSE ErrInvalidRef
  /\ ( last.op = "fireEventList" /\ last.id # "" /\ last.ret # "throw" )
     => LET stop == HandledIndex(last.arg, last.arg2)
            upTo == IF stop = 0 THEN Len(last.arg) ELSE stop
        IN /\ Fired(last) = SelectSeq(SubSeq(last.arg, 1, upTo), LAMBDA r : r \in Refs)
           /\ stop # 0 => last.ret = last.arg2[last.arg[stop]]

\* C16: a bundle that calls render(name, data) or require(name)(data) has
\* the effect of one that calls bootstrap(name, {}, data): the component is
\* the view-model root, the creation tasks were flushed to the transport
\* and createFinish was signalled
C16_RenderAndRequireAsBootstrap ==
  ( last.op = "init" /\ last.arg \in {"render", "require"} /\ last.ret # "throw" )
  => /\ app.vm # "null"
     /\ last.trace = << "bootstrap", "flush", "createFinish" >>
     /\ last.sent = << [id |-> last.id, tasks |-> SentCreationTasks, cb |-> "-1"] >>
     /\ app.updates = << >>

----------------------------------------------------------------------------
(* Properties of the order of the steps of a call, checked under           *)
(* SpecPhase.                                                              *)

\* the call took the step of its user code, then flushed, then signalled,
\* and nothing else
RanFlushedSignalled(c, user, signal) == c.trace = << user, "flush", signal >>

\* C15: a bootstrap, refresh, single-ref fireEvent or callback that returns
\* has run the user code first, flushed the Action Batcher second and given
\* its one phase signal last (createFinish, refreshFinish, updateFinish,
\* updateFinish); a call that returns an explicit error, or is given falsy
\* data or a ref without an element, has neither flushed nor signalled
C15_RunFlushSignal ==
  /\ ( last.op = "init" /\ last.arg = "bootstrap" /\ last.ret # "throw" )
     => RanFlushedSignalled(last, "bootstrap", "createFinish")
  /\ ( last.op = "refresh" /\ last.ret = "undefined" )
     => \/ RanFlushedSignalled(last, "extend", "refreshFinish")
        \/ RanFlushedSignalled(last, "refreshData", "refreshFinish")
  /\ ( last.op = "fireEvent" /\ last.ret \in {"false", "true", "undefined"} )
     => RanFlushedSignalled(last, last.arg, "updateFinish")
  /\ ( last.op = "callback" /\ last.ret = "undefined" )
     => LET n == Len(last.trace)
        IN /\ n >= 3
           /\ last.trace[1] = "call"
           /\ last.trace[n - 1] = "flush" /\ last.trace[n] = "updateFinish"
           /\ Calls(last) = 1 => n = 3
  /\ ( \/ last.ret \in {ErrInvalidData, ErrInvalidRef, ErrInvalidCallback}
       \/ last.op = "refresh" /\ last.arg = ""
       \/ last.op = "fireEvent" /\ last.arg \notin Refs )
     => last.trace = << >> /\ last.sent = << >>

\* a refresh of a bootstrapped app: the data was applied, the batcher
\* flushed, refreshFinish signalled
C15_Witness ==
  /\ last.op = "refresh"
  /\ last.arg = "data"
  /\ last.ret = "undefined"
  /\ last.trace = << "extend", "flush", "refreshFinish" >>

====
